---- MODULE Spec2Model ----
(***************************************************************************)
(* Model of the learning_cell crate: two records `Immutable`, one whose    *)
(* fields are wrapped in std::cell::Cell (module Cell) and one whose       *)
(* fields are wrapped in std::cell::RefCell (module RefCell).  Two         *)
(* instances `a` and `b` of each record exist so that `swap` has a partner *)
(* of the same element type.                                               *)
(***************************************************************************)
EXTENDS Integers, Sequences, FiniteSets, TLC

\* ---------------------------------------------------------------- bounds
\* number of Ref / RefMut handles that may be alive at the same time
MaxHandles == 2

\* ------------------------------------------------------------- the record
Instances == {"a", "b"}
Fields    == {"special", "special_nocopy"}
Cells     == Instances \X Fields

InstanceOf(c) == c[1]
FieldOf(c)    == c[2]

\* values an i32 field / a String field takes in the model
I32Values    == {42, 0}
StringValues == {"hi", "bye", ""}
ValuesOf(c)  == IF FieldOf(c) = "special" THEN I32Values ELSE StringValues

\* <i32 as Default>::default() and String::default()
DefaultOf(c) == IF FieldOf(c) = "special" THEN 0 ELSE ""

\* Immutable::default(): regular: 1, special: 42, special_nocopy: "hi"
DefaultRegular == 1

\* a default() that builds special from i32::default()
DefaultSpecial_derived(c) == IF FieldOf(c) = "special" THEN 0 ELSE "hi"

DefaultSpecial(c) == IF FieldOf(c) = "special" THEN 42 ELSE "hi"

\* values the Cell fields are set to
CellValuesOf(c) == IF FieldOf(c) = "special" THEN {42, 2} ELSE {"hi", "bye"}

\* a Cell whose value was moved out and nothing put back
Empty == <<>>


VARIABLES
    \* ---- module Cell
    cregular,   \* Cell::Immutable.regular, per instance
    cvalue,     \* the value inside each Cell
    clast,      \* the last Cell operation: what was called and what it returned
    lastArg,    \* history: argument of the last set/replace on each Cell
    swapped,    \* history: a swap changed the Cell after its last set/replace
    \* ---- module RefCell
    regular,    \* RefCell::Immutable.regular, per instance
    borrow,     \* the `borrow` field of each RefCell
    value,      \* the value inside each RefCell
    refs,       \* number of live Ref objects of each RefCell
    refmuts,    \* number of live RefMut objects of each RefCell
    last        \* the last RefCell operation: what was called and its outcome

cvars == <<cregular, cvalue, clast, lastArg, swapped>>
rvars == <<regular, borrow, value, refs, refmuts, last>>
vars  == <<cregular, cvalue, clast, lastArg, swapped,
           regular, borrow, value, refs, refmuts, last>>

NoCell == <<"-", "-">>
NoOp == [op |-> "none", cell |-> NoCell, other |-> NoCell,
         arg |-> <<>>, res |-> "ok", ret |-> <<>>]

Init ==
    /\ cregular = [i \in Instances |-> DefaultRegular]
    /\ cvalue   = [c \in Cells |-> <<DefaultSpecial(c)>>]
    /\ clast    = NoOp
    /\ lastArg  = [c \in Cells |-> DefaultSpecial(c)]
    /\ swapped  = [c \in Cells |-> FALSE]
    /\ regular  = [i \in Instances |-> DefaultRegular]
    /\ borrow   = [c \in Cells |-> 0]
    /\ value    = [c \in Cells |-> DefaultSpecial(c)]
    /\ refs     = [c \in Cells |-> 0]
    /\ refmuts  = [c \in Cells |-> 0]
    /\ last     = NoOp

\* =================================================================
\* module RefCell
\* =================================================================

\* the `borrow` field: 0 = no active references (UNUSED), x > 0 = number of
\* shared references, x < 0 = exclusive reference (can only be -1)
UNUSED == 0

\* try_borrow that admits one shared reference only
try_borrow_single(b) ==
    IF b = 0 THEN [ok |-> TRUE, b |-> b + 1]
             ELSE [ok |-> FALSE, b |-> b]

\* try_borrow on a counter: Ok (counter + 1) unless exclusively borrowed
try_borrow(b) ==
    IF b >= UNUSED THEN [ok |-> TRUE, b |-> b + 1]
                   ELSE [ok |-> FALSE, b |-> b]

\* try_borrow_mut that looks for an exclusive reference only
try_borrow_mut_ignoring_shared(b) ==
    IF b >= 0 THEN [ok |-> TRUE, b |-> -1]
              ELSE [ok |-> FALSE, b |-> b]

\* try_borrow_mut that marks the RefCell before it looks at the counter
try_borrow_mut_sets_first(b) == [ok |-> b = 0, b |-> -1]

\* try_borrow_mut on a counter: Ok (counter -1) only when UNUSED
try_borrow_mut(b) ==
    IF b = UNUSED THEN [ok |-> TRUE, b |-> -1]
                  ELSE [ok |-> FALSE, b |-> b]

\* borrow with a check of its own: panics as soon as the RefCell is in use
borrow_own_check(b) ==
    [res |-> IF b = 0 THEN "ok" ELSE "panic", b |-> IF b = 0 THEN b + 1 ELSE b]

\* borrow_mut with a check of its own: panics on an exclusive reference only
borrow_mut_shared_ok(b) ==
    [res |-> IF b >= 0 THEN "ok" ELSE "panic", b |-> IF b >= 0 THEN -1 ELSE b]

\* borrow / borrow_mut call the try_ method and panic on Err
borrow_(b) ==
    LET r == try_borrow(b)
    IN  [res |-> IF r.ok THEN "ok" ELSE "panic", b |-> r.b]

borrow_mut(b) ==
    LET r == try_borrow_mut(b)
    IN  [res |-> IF r.ok THEN "ok" ELSE "panic", b |-> r.b]

\* the outcome a try_ method reports
TryRes(r) == IF r.ok THEN "ok" ELSE "err"

\* a Ref whose drop leaves the counter alone
drop_Ref_forgotten(b) == b

\* a RefMut whose drop counts like a Ref
drop_RefMut_as_Ref(b) == b - 1

\* dropping a Ref / a RefMut
drop_Ref(b)    == b - 1
drop_RefMut(b) == b + 1

\* number of live handles of either kind, over all RefCells
RECURSIVE SumOver(_, _)
SumOver(f, S) ==
    IF S = {} THEN 0
    ELSE LET c == CHOOSE x \in S : TRUE IN f[c] + SumOver(f, S \ {c})

LiveHandles == SumOver(refs, Cells) + SumOver(refmuts, Cells)
CanHold == LiveHandles < MaxHandles

Outcome(o, c, d, a, r, v) ==
    [op |-> o, cell |-> c, other |-> d, arg |-> a, res |-> r, ret |-> v]

\* let r = c.try_borrow();
TryBorrow(c) ==
    LET r == try_borrow(borrow[c]) IN
    /\ r.ok => CanHold
    /\ borrow' = [borrow EXCEPT ![c] = r.b]
    /\ refs'   = IF r.ok THEN [refs EXCEPT ![c] = @ + 1] ELSE refs
    /\ last'   = Outcome("try_borrow", c, NoCell, <<>>, TryRes(r), <<>>)
    /\ UNCHANGED <<value, refmuts, regular, cvars>>

\* let r = c.try_borrow_mut();
TryBorrowMut(c) ==
    LET r == try_borrow_mut(borrow[c]) IN
    /\ r.ok => CanHold
    /\ borrow'  = [borrow EXCEPT ![c] = r.b]
    /\ refmuts' = IF r.ok THEN [refmuts EXCEPT ![c] = @ + 1] ELSE refmuts
    /\ last'    = Outcome("try_borrow_mut", c, NoCell, <<>>, TryRes(r), <<>>)
    /\ UNCHANGED <<value, refs, regular, cvars>>

\* let r = c.borrow();
Borrow(c) ==
    LET r == borrow_(borrow[c]) IN
    /\ r.res = "ok" => CanHold
    /\ borrow' = [borrow EXCEPT ![c] = r.b]
    /\ refs'   = IF r.res = "ok" THEN [refs EXCEPT ![c] = @ + 1] ELSE refs
    /\ last'   = Outcome("borrow", c, NoCell, <<>>, r.res, <<>>)
    /\ UNCHANGED <<value, refmuts, regular, cvars>>

\* let r = c.borrow_mut();
BorrowMut(c) ==
    LET r == borrow_mut(borrow[c]) IN
    /\ r.res = "ok" => CanHold
    /\ borrow'  = [borrow EXCEPT ![c] = r.b]
    /\ refmuts' = IF r.res = "ok" THEN [refmuts EXCEPT ![c] = @ + 1] ELSE refmuts
    /\ last'    = Outcome("borrow_mut", c, NoCell, <<>>, r.res, <<>>)
    /\ UNCHANGED <<value, refs, regular, cvars>>

\* a Ref of c that disappears without its drop being run
DropRef_leaked(c) ==
    /\ refs[c] > 0
    /\ refs'   = [refs EXCEPT ![c] = @ - 1]
    /\ last'   = Outcome("drop_ref", c, NoCell, <<>>, "ok", <<>>)
    /\ UNCHANGED <<borrow, value, refmuts, regular, cvars>>

\* a Ref of c goes out of scope
DropRef(c) ==
    /\ refs[c] > 0
    /\ borrow' = [borrow EXCEPT ![c] = drop_Ref(@)]
    /\ refs'   = [refs EXCEPT ![c] = @ - 1]
    /\ last'   = Outcome("drop_ref", c, NoCell, <<>>, "ok", <<>>)
    /\ UNCHANGED <<value, refmuts, regular, cvars>>

\* a RefMut of c goes out of scope
DropRefMut(c) ==
    /\ refmuts[c] > 0
    /\ borrow'  = [borrow EXCEPT ![c] = drop_RefMut(@)]
    /\ refmuts' = [refmuts EXCEPT ![c] = @ - 1]
    /\ last'    = Outcome("drop_refmut", c, NoCell, <<>>, "ok", <<>>)
    /\ UNCHANGED <<value, refs, regular, cvars>>

\* assert_eq!(*refer, ..): read c through a live Ref or RefMut
Deref(c) ==
    /\ refs[c] > 0 \/ refmuts[c] > 0
    /\ last' = Outcome("deref", c, NoCell, <<>>, "ok", <<value[c]>>)
    /\ UNCHANGED <<value, borrow, refs, refmuts, regular, cvars>>

\* a write through a RefMut that never reaches the RefCell
DerefMut_discarded(c, v) ==
    /\ refmuts[c] > 0
    /\ v \in ValuesOf(c)
    /\ last'  = Outcome("deref_mut", c, NoCell, <<v>>, "ok", <<>>)
    /\ UNCHANGED <<value, borrow, refs, refmuts, regular, cvars>>

\* *refer = v: write c through a live RefMut
DerefMut(c, v) ==
    /\ refmuts[c] > 0
    /\ v \in ValuesOf(c)
    /\ value' = [value EXCEPT ![c] = v]
    /\ last'  = Outcome("deref_mut", c, NoCell, <<v>>, "ok", <<>>)
    /\ UNCHANGED <<borrow, refs, refmuts, regular, cvars>>

\* c.replace(v): mem::replace(&mut *self.borrow_mut(), v)
Replace(c, v) ==
    LET r == borrow_mut(borrow[c]) IN
    /\ v \in ValuesOf(c)
    /\ IF r.res = "ok"
       THEN /\ value' = [value EXCEPT ![c] = v]
            /\ borrow' = [borrow EXCEPT ![c] = drop_RefMut(r.b)]
            /\ last'  = Outcome("replace", c, NoCell, <<v>>, "ok", <<value[c]>>)
       ELSE /\ last'  = Outcome("replace", c, NoCell, <<v>>, "panic", <<>>)
            /\ UNCHANGED <<value, borrow>>
    /\ UNCHANGED <<refs, refmuts, regular, cvars>>

\* what take leaves inside: Default::default()
take_value(c) == DefaultOf(c)

\* take that hands out a copy and leaves the value inside
Take_keeps_value(c) ==
    LET r == borrow_mut(borrow[c]) IN
    /\ IF r.res = "ok"
       THEN /\ borrow' = [borrow EXCEPT ![c] = drop_RefMut(r.b)]
            /\ last'  = Outcome("take", c, NoCell, <<>>, "ok", <<value[c]>>)
            /\ UNCHANGED value
       ELSE /\ last'  = Outcome("take", c, NoCell, <<>>, "panic", <<>>)
            /\ UNCHANGED <<value, borrow>>
    /\ UNCHANGED <<refs, refmuts, regular, cvars>>

\* take that puts the default back into every field of the record
Take_resets_record(c) ==
    LET r == borrow_mut(borrow[c]) IN
    /\ IF r.res = "ok"
       THEN /\ value' = [e \in Cells |->
                            IF InstanceOf(e) = InstanceOf(c) THEN DefaultOf(e)
                                                             ELSE value[e]]
            /\ borrow' = [borrow EXCEPT ![c] = drop_RefMut(r.b)]
            /\ last'  = Outcome("take", c, NoCell, <<>>, "ok", <<value[c]>>)
       ELSE /\ last'  = Outcome("take", c, NoCell, <<>>, "panic", <<>>)
            /\ UNCHANGED <<value, borrow>>
    /\ UNCHANGED <<refs, refmuts, regular, cvars>>

\* c.take(): self.replace(Default::default())
Take(c) ==
    LET r == borrow_mut(borrow[c]) IN
    /\ IF r.res = "ok"
       THEN /\ value' = [value EXCEPT ![c] = take_value(c)]
            /\ borrow' = [borrow EXCEPT ![c] = drop_RefMut(r.b)]
            /\ last'  = Outcome("take", c, NoCell, <<>>, "ok", <<value[c]>>)
       ELSE /\ last'  = Outcome("take", c, NoCell, <<>>, "panic", <<>>)
            /\ UNCHANGED <<value, borrow>>
    /\ UNCHANGED <<refs, refmuts, regular, cvars>>

\* swap that borrows self only and reaches into other unchecked
Swap_unchecked_other(c, d) ==
    /\ FieldOf(c) = FieldOf(d)
    /\ LET r1 == borrow_mut(borrow[c])
       IN  IF r1.res = "ok"
           THEN /\ value' = [value EXCEPT ![c] = value[d], ![d] = value[c]]
                /\ borrow' = [borrow EXCEPT ![c] = drop_RefMut(r1.b)]
                /\ last'  = Outcome("swap", c, d, <<>>, "ok", <<>>)
           ELSE /\ last'  = Outcome("swap", c, d, <<>>, "panic", <<>>)
                /\ UNCHANGED <<value, borrow>>
    /\ UNCHANGED <<refs, refmuts, regular, cvars>>

\* c.swap(&d): mem::swap(&mut *self.borrow_mut(), &mut *other.borrow_mut())
Swap(c, d) ==
    /\ FieldOf(c) = FieldOf(d)
    /\ LET r1 == borrow_mut(borrow[c])
           b1 == [borrow EXCEPT ![c] = r1.b]
           r2 == borrow_mut(b1[d])
       IN  IF r1.res = "ok" /\ r2.res = "ok"
           THEN /\ value' = [value EXCEPT ![c] = value[d], ![d] = value[c]]
                /\ borrow' = [borrow EXCEPT ![c] = drop_RefMut(r1.b),
                                            ![d] = drop_RefMut(r2.b)]
                /\ last'  = Outcome("swap", c, d, <<>>, "ok", <<>>)
           ELSE \* the RefMut taken on self, if any, is dropped while unwinding
                /\ last'  = Outcome("swap", c, d, <<>>, "panic", <<>>)
                /\ UNCHANGED <<value, borrow>>
    /\ UNCHANGED <<refs, refmuts, regular, cvars>>

RefCellNext ==
    \/ \E c \in Cells : TryBorrow(c)
    \/ \E c \in Cells : TryBorrowMut(c)
    \/ \E c \in Cells : Borrow(c)
    \/ \E c \in Cells : BorrowMut(c)
    \/ \E c \in Cells : DropRef(c)
    \/ \E c \in Cells : DropRefMut(c)
    \/ \E c \in Cells : Deref(c)
    \/ \E c \in Cells : \E v \in ValuesOf(c) : DerefMut(c, v)
    \/ \E c \in Cells : \E v \in ValuesOf(c) : Replace(c, v)
    \/ \E c \in Cells : Take(c)
    \/ \E c \in Cells : \E d \in Cells : Swap(c, d)

SpecRefCell == Init /\ [][RefCellNext]_vars

\* the scope that holds a live Ref or RefMut is left sooner or later
Release == \E c \in Cells : DropRef(c) \/ DropRefMut(c)
SpecRefCellFair == SpecRefCell /\ WF_vars(Release)

\* =================================================================
\* module Cell
\* =================================================================

\* set that keeps the old value
Cell_set_dropped(old, v) == old

\* Cell::set: overwrite the value, for any T
Cell_set(old, v) == <<v>>

\* get that moves the value out
Cell_get_moves_out(cur) == [ret |-> cur, inside |-> <<>>]

\* Cell::get: a copy of the value, only for T: Copy; the value stays inside
Cell_get(cur) == [ret |-> cur, inside |-> cur]
HasGet(c) == FieldOf(c) = "special"

\* replace that hands the new value back
Cell_replace_returns_new(old, v) == [ret |-> <<v>>, inside |-> <<v>>]

\* Cell::replace: put v inside, hand the old value out
Cell_replace(old, v) == [ret |-> old, inside |-> <<v>>]

\* swap that copies other into self and leaves other as it was
Cell_swap_copies(c, d, vals) == [vals EXCEPT ![c] = vals[d]]

\* Cell::swap: nothing to do when both are the same Cell, else exchange
Cell_swap(c, d, vals) ==
    IF c = d THEN vals
    ELSE [vals EXCEPT ![c] = vals[d], ![d] = vals[c]]

\* c.set(v)
Set(c, v) ==
    /\ v \in CellValuesOf(c)
    /\ cvalue'  = [cvalue EXCEPT ![c] = Cell_set(@, v)]
    /\ clast'   = Outcome("set", c, NoCell, <<v>>, "ok", <<>>)
    /\ lastArg' = [lastArg EXCEPT ![c] = v]
    /\ swapped' = [swapped EXCEPT ![c] = FALSE]
    /\ UNCHANGED <<cregular, rvars>>

\* let _ = c.get()
Get(c) ==
    /\ HasGet(c)
    /\ cvalue' = [cvalue EXCEPT ![c] = Cell_get(@).inside]
    /\ clast'  = Outcome("get", c, NoCell, <<>>, "ok", Cell_get(cvalue[c]).ret)
    /\ UNCHANGED <<cregular, lastArg, swapped, rvars>>

\* let _ = c.replace(v)
CellReplace(c, v) ==
    /\ v \in CellValuesOf(c)
    /\ cvalue'  = [cvalue EXCEPT ![c] = Cell_replace(@, v).inside]
    /\ clast'   = Outcome("replace", c, NoCell, <<v>>, "ok",
                          Cell_replace(cvalue[c], v).ret)
    /\ lastArg' = [lastArg EXCEPT ![c] = v]
    /\ swapped' = [swapped EXCEPT ![c] = FALSE]
    /\ UNCHANGED <<cregular, rvars>>

\* c.swap(&d)
CellSwap(c, d) ==
    /\ FieldOf(c) = FieldOf(d)
    /\ cvalue'  = Cell_swap(c, d, cvalue)
    /\ clast'   = Outcome("swap", c, d, <<>>, "ok", <<>>)
    /\ swapped' = IF c = d THEN swapped
                  ELSE [swapped EXCEPT ![c] = TRUE, ![d] = TRUE]
    /\ UNCHANGED <<cregular, lastArg, rvars>>

CellNext ==
    \/ \E c \in Cells : \E v \in CellValuesOf(c) : Set(c, v)
    \/ \E c \in Cells : Get(c)
    \/ \E c \in Cells : \E v \in CellValuesOf(c) : CellReplace(c, v)
    \/ \E c \in Cells : \E d \in Cells : CellSwap(c, d)

SpecCell == Init /\ [][CellNext]_vars

\* =================================================================
\* one record: a program works on Cell::Immutable or on RefCell::Immutable;
\* the two modules share no state
\* =================================================================

RecordNext ==
    \/ last = NoOp /\ CellNext
    \/ clast = NoOp /\ RefCellNext

SpecRecord == Init /\ [][RecordNext]_vars

\* =================================================================
\* properties of module RefCell (checked under SpecRefCell)
\* =================================================================

Conflict == {"err", "panic"}
\* the step is the named call; the RefCell it is called on is last'.cell
IsBorrowStep    == last'.op \in {"borrow", "try_borrow"}
                      /\ (Borrow(last'.cell) \/ TryBorrow(last'.cell))
IsBorrowMutStep == last'.op \in {"borrow_mut", "try_borrow_mut"}
                      /\ (BorrowMut(last'.cell) \/ TryBorrowMut(last'.cell))
IsDropRef       == last'.op = "drop_ref" /\ DropRef(last'.cell)
IsDropRefMut    == last'.op = "drop_refmut" /\ DropRefMut(last'.cell)
IsReplace       == last'.op = "replace" /\ Replace(last'.cell, last'.arg[1])
IsTake          == last'.op = "take" /\ Take(last'.cell)
IsSwap          == last'.op = "swap" /\ Swap(last'.cell, last'.other)
IsDeref         == last'.op = "deref" /\ Deref(last'.cell)
IsDerefMut      == last'.op = "deref_mut" /\ DerefMut(last'.cell, last'.arg[1])
RefCellUntouched(c) ==
    /\ borrow'[c] = borrow[c]
    /\ value'[c] = value[c]
    /\ refs'[c] = refs[c]
    /\ refmuts'[c] = refmuts[c]

\* C1: the borrow counter of every RefCell is 0 with no live handle, or a
\* positive n with exactly n live Refs and no RefMut, or -1 with exactly one
\* live RefMut and no Ref; a RefMut is never live together with a Ref or
\* with a second RefMut.
C1_CounterMatchesHandles ==
    \A c \in Cells :
        /\ borrow[c] >= -1
        /\ borrow[c] = 0  => refs[c] = 0 /\ refmuts[c] = 0
        /\ borrow[c] > 0  => refs[c] = borrow[c] /\ refmuts[c] = 0
        /\ borrow[c] = -1 => refs[c] = 0 /\ refmuts[c] = 1
        /\ refmuts[c] <= 1
        /\ ~(refmuts[c] >= 1 /\ refs[c] >= 1)

\* a RefMut is live and a shared borrow of the same RefCell was just refused
C1_Witness ==
    /\ last.op = "try_borrow" /\ last.res = "err"
    /\ borrow[last.cell] = -1 /\ refmuts[last.cell] = 1

\* C2: borrow_mut / try_borrow_mut succeed exactly when the counter is 0 and
\* then set it to -1; while a Ref is live they end in a conflict (panic for
\* borrow_mut, Err for try_borrow_mut) that changes nothing; with no handle
\* left alive they succeed.
C2_ExclusiveOnlyWhenUnused ==
    [][IsBorrowMutStep =>
         LET c == last'.cell IN
            /\ (last'.res = "ok") <=> (borrow[c] = 0)
            /\ last'.res = "ok" => borrow'[c] = -1 /\ refmuts'[c] = 1
            /\ refs[c] > 0 => last'.res \in Conflict /\ RefCellUntouched(c)
            /\ (refs[c] = 0 /\ refmuts[c] = 0) => last'.res = "ok"
            /\ (last'.op = "borrow_mut" /\ last'.res # "ok") => last'.res = "panic"
            /\ (last'.op = "try_borrow_mut" /\ last'.res # "ok") => last'.res = "err"
      ]_vars

\* borrow_mut just panicked because a Ref of the same RefCell is alive
C2_Witness ==
    /\ last.op = "borrow_mut" /\ last.res = "panic"
    /\ refs[last.cell] >= 1

\* C3: borrow / try_borrow succeed whenever the counter is >= 0 and add one
\* to it; a second Ref next to a live one brings the counter to 2; every
\* dropped Ref takes one off, so dropping the last one brings it back to 0.
C3_SharedCounts ==
    [][LET c == last'.cell IN
          /\ (IsBorrowStep /\ borrow[c] >= 0) =>
                /\ last'.res = "ok"
                /\ borrow'[c] = borrow[c] + 1
                /\ refs'[c] = refs[c] + 1
          /\ (IsBorrowStep /\ refs[c] = 1 /\ refmuts[c] = 0) => borrow'[c] = 2
          /\ IsDropRef => borrow'[c] = borrow[c] - 1
          /\ (IsDropRef /\ refs'[c] = 0) => borrow'[c] = 0
      ]_vars

\* two Refs of one RefCell are alive, the second one just acquired
C3_Witness ==
    /\ last.op = "borrow" /\ last.res = "ok"
    /\ refs[last.cell] = 2 /\ borrow[last.cell] = 2

\* C4: while a RefMut is alive every borrow, borrow_mut, try_borrow and
\* try_borrow_mut on its RefCell ends in a conflict and changes nothing;
\* dropping the RefMut brings the counter to 0, and a shared or an exclusive
\* borrow requested right after the drop succeeds.
C4_ExclusiveBlocksAll ==
    [][LET c == last'.cell IN
          /\ ((IsBorrowStep \/ IsBorrowMutStep) /\ refmuts[c] > 0) =>
                /\ last'.res \in Conflict
                /\ RefCellUntouched(c)
          /\ IsDropRefMut => borrow'[c] = 0
          /\ ((IsBorrowStep \/ IsBorrowMutStep)
                /\ last.op = "drop_refmut" /\ last.cell = c) => last'.res = "ok"
      ]_vars

\* a RefMut is alive and a shared borrow of its RefCell just panicked
C4_Witness ==
    /\ last.op = "borrow" /\ last.res = "panic"
    /\ refmuts[last.cell] = 1

\* what replace and take do to the RefCell c they are called on
MutatorOutcome(c) ==
    IF borrow[c] # 0
    THEN last'.res = "panic" /\ RefCellUntouched(c)
    ELSE last'.res = "ok" /\ borrow'[c] = 0

\* C5 as stated: replace, swap and take panic whenever the counter of the
\* RefCell they are called on is not 0, and when it is 0 they perform their
\* operation and leave the counter at 0.
C5_AsStated ==
    [][(IsReplace \/ IsTake \/ IsSwap) => MutatorOutcome(last'.cell)]_vars

\* C5 amended: replace and take panic whenever the counter is not 0 and
\* otherwise store the new value (the argument, the default) and leave the
\* counter at 0; swap panics whenever the counter of either RefCell is not 0
\* or both are the same RefCell, changing nothing, and otherwise exchanges
\* the two values and leaves both counters at 0.
C5_MutatorsNeedExclusive ==
    [][LET c == last'.cell
           d == last'.other
       IN
          /\ IsReplace =>
                /\ MutatorOutcome(c)
                /\ borrow[c] = 0 => value'[c] = last'.arg[1]
          /\ IsTake =>
                /\ MutatorOutcome(c)
                /\ borrow[c] = 0 => value'[c] = DefaultOf(c)
          /\ IsSwap =>
                IF borrow[c] # 0 \/ borrow[d] # 0 \/ c = d
                THEN /\ last'.res = "panic"
                     /\ RefCellUntouched(c) /\ RefCellUntouched(d)
                ELSE /\ last'.res = "ok"
                     /\ borrow'[c] = 0 /\ borrow'[d] = 0
                     /\ value'[c] = value[d] /\ value'[d] = value[c]
      ]_vars

\* swap just panicked although the RefCell it was called on is unused: the
\* other RefCell is borrowed
C5_Witness ==
    /\ last.op = "swap" /\ last.res = "panic"
    /\ borrow[last.cell] = 0
    /\ last.other # last.cell /\ borrow[last.other] # 0

\* C6: in every reachable state try_borrow reports Err exactly when borrow
\* would panic, try_borrow_mut exactly when borrow_mut would, and on success
\* the try_ method and the panicking method leave the same counter.
C6_TryAgreesWithFatal ==
    \A c \in Cells :
        /\ (~try_borrow(borrow[c]).ok) <=> (borrow_(borrow[c]).res = "panic")
        /\ (~try_borrow_mut(borrow[c]).ok) <=> (borrow_mut(borrow[c]).res = "panic")
        /\ try_borrow(borrow[c]).b = borrow_(borrow[c]).b
        /\ try_borrow_mut(borrow[c]).b = borrow_mut(borrow[c]).b

\* try_borrow succeeded on a RefCell that already has a Ref, where borrow
\* succeeds too and try_borrow_mut and borrow_mut both fail
C6_Witness ==
    /\ last.op = "try_borrow" /\ last.res = "ok"
    /\ borrow[last.cell] = 2
    /\ borrow_(borrow[last.cell]).res = "ok"
    /\ borrow_mut(borrow[last.cell]).res = "panic"

\* C7: take on a RefCell that is as Immutable::default() built it returns
\* the original value and leaves the type's default value inside; take
\* while a Ref or RefMut is alive panics and changes nothing.
Fresh(c) ==
    /\ value[c] = DefaultSpecial(c)
    /\ borrow[c] = 0 /\ refs[c] = 0 /\ refmuts[c] = 0

C7_TakeLeavesDefault ==
    [][IsTake =>
         LET c == last'.cell IN
            /\ Fresh(c) => /\ last'.res = "ok"
                           /\ last'.ret = <<DefaultSpecial(c)>>
                           /\ value'[c] = DefaultOf(c)
                           /\ value'[c] # DefaultSpecial(c)
            /\ (refs[c] > 0 \/ refmuts[c] > 0) =>
                           /\ last'.res = "panic"
                           /\ RefCellUntouched(c)
      ]_vars

\* take just panicked on a RefCell that holds the default value and has a
\* live Ref
C7_Witness ==
    /\ last.op = "take" /\ last.res = "panic"
    /\ value[last.cell] = DefaultOf(last.cell)
    /\ refs[last.cell] >= 1

\* =================================================================
\* properties of module Cell (checked under SpecCell)
\* =================================================================

\* C8: replace(w) returns the value the Cell held and leaves w inside, for
\* the i32 and the String field alike: right after set(v) it returns v, and
\* in general it returns the argument of the last set or replace.
C8_ReplaceReturnsOld ==
    [][(clast'.op = "replace" /\ CellReplace(clast'.cell, clast'.arg[1])) =>
         LET c == clast'.cell IN
            /\ clast'.ret = cvalue[c]
            /\ cvalue'[c] = clast'.arg
            /\ (clast.op = "set" /\ clast.cell = c) => clast'.ret = clast.arg
            /\ ~swapped[c] => clast'.ret = <<lastArg[c]>>
      ]_vars

\* replace on the String field just returned a value other than its argument
C8_Witness ==
    /\ clast.op = "replace" /\ FieldOf(clast.cell) = "special_nocopy"
    /\ clast.ret = <<"hi">> /\ clast.arg = <<"bye">>
    /\ cvalue[clast.cell] = <<"bye">>

\* C9: on the i32 field, after set and replace operations get returns the
\* argument of the last set or replace (the initial value when there was
\* none), and get leaves the stored value as it was.
C9_GetReturnsLastStored ==
    [][(clast'.op = "get" /\ Get(clast'.cell)) =>
         LET c == clast'.cell IN
            /\ ~swapped[c] => clast'.ret = <<lastArg[c]>>
            /\ cvalue' = cvalue
      ]_vars

\* get just returned a value that a set or replace stored
C9_Witness ==
    /\ clast.op = "get" /\ clast.ret = <<2>>
    /\ ~swapped[clast.cell] /\ lastArg[clast.cell] = 2

\* C10: every Cell holds exactly one value in every reachable state, and no
\* Cell operation ever ends in anything but success.
C10_NeverEmpty ==
    /\ \A c \in Cells : cvalue[c] # Empty /\ Len(cvalue[c]) = 1
    /\ clast.res = "ok"

\* two different Cells have just been swapped after a get
C10_Witness ==
    /\ clast.op = "swap" /\ clast.cell # clast.other
    /\ cvalue[clast.cell] # cvalue[clast.other]
    /\ \E c \in Cells : swapped[c] /\ lastArg[c] # DefaultSpecial(c)

\* =================================================================
\* properties of one record (checked under SpecRecord)
\* =================================================================

\* no method of either record has been called yet
NothingCalled == last = NoOp /\ clast = NoOp

\* the record of both modules as the source builds it
BuiltAsDocumented ==
    /\ \A i \in Instances :
          /\ cregular[i] = 1 /\ regular[i] = 1
          /\ cvalue[<<i, "special">>] = <<42>>
          /\ cvalue[<<i, "special_nocopy">>] = <<"hi">>
          /\ value[<<i, "special">>] = 42
          /\ value[<<i, "special_nocopy">>] = "hi"
    /\ \A c \in Cells : borrow[c] = 0 /\ refs[c] = 0 /\ refmuts[c] = 0

\* C11: the default instance of each module is built with regular = 1,
\* special = 42 and special_nocopy = "hi", and the RefCells with no
\* outstanding reference; borrow (or try_borrow) of special on such an
\* instance succeeds, and reading through the Ref it returned gives 42.
C11_DefaultInstance ==
    [][/\ NothingCalled => BuiltAsDocumented
       /\ (IsBorrowStep /\ BuiltAsDocumented /\ FieldOf(last'.cell) = "special") =>
             /\ last'.res = "ok"
             /\ borrow'[last'.cell] = 1 /\ refs'[last'.cell] = 1
             /\ value'[last'.cell] = 42
       /\ (IsDeref /\ last.op \in {"borrow", "try_borrow"} /\ last.res = "ok"
             /\ last.cell = last'.cell /\ FieldOf(last.cell) = "special"
             /\ borrow[last.cell] = 1
             /\ \A c \in Cells : value[c] = DefaultSpecial(c)) =>
             last'.ret = <<42>>
      ]_vars

\* special of the untouched RefCell record was borrowed and read: 42
C11_Witness ==
    /\ last.op = "deref" /\ last.cell = <<"a", "special">>
    /\ last.ret = <<42>> /\ refs[last.cell] = 1
    /\ clast = NoOp
    /\ value[<<"a", "special_nocopy">>] = "hi" /\ regular["a"] = 1

\* =================================================================
\* further properties of module Cell (checked under SpecCell)
\* =================================================================

\* C12: c.swap(&d) exchanges the values of the two Cells and touches no
\* other Cell: afterwards c holds what d held and d holds what c held; a
\* second swap of the same two Cells, in either order of the two, gives
\* every Cell the value it had before the first one.
C12_SwapExchanges ==
    [][(clast'.op = "swap" /\ CellSwap(clast'.cell, clast'.other)) =>
         LET c == clast'.cell
             d == clast'.other
         IN
            /\ cvalue'[c] = cvalue[d]
            /\ cvalue'[d] = cvalue[c]
            /\ \A e \in Cells \ {c, d} : cvalue'[e] = cvalue[e]
            /\ Cell_swap(c, d, cvalue') = cvalue
            /\ Cell_swap(d, c, cvalue') = cvalue
      ]_vars

\* a's String Cell was set to "bye" and then swapped with b's: a now holds
\* "hi" and b holds "bye"
C12_Witness ==
    /\ clast.op = "swap"
    /\ clast.cell = <<"a", "special_nocopy">>
    /\ clast.other = <<"b", "special_nocopy">>
    /\ lastArg[clast.cell] = "bye" /\ lastArg[clast.other] = "hi"
    /\ cvalue[clast.cell] = <<"hi">> /\ cvalue[clast.other] = <<"bye">>

\* =================================================================
\* further properties of module RefCell
\* =================================================================

Abs(n) == IF n < 0 THEN -n ELSE n
AcquireOps == {"borrow", "borrow_mut", "try_borrow", "try_borrow_mut"}

\* C13 (checked under SpecRefCellFair): the counter of a RefCell gets
\* closer to 0 only in a step that drops a Ref or RefMut of that RefCell; a
\* dropped Ref takes exactly one off and a dropped RefMut sets it to 0; and
\* if from some point on no borrow method is called any more, then from
\* some point on every counter is 0 for good.
C13_ReleasedInTheEnd ==
    /\ [][/\ \A c \in Cells :
               Abs(borrow'[c]) < Abs(borrow[c]) =>
                  (IsDropRef \/ IsDropRefMut) /\ last'.cell = c
          /\ IsDropRef => borrow'[last'.cell] = borrow[last'.cell] - 1
          /\ IsDropRefMut => borrow'[last'.cell] = 0
         ]_vars
    /\ (<>[](last.op \notin AcquireOps)) => <>[](\A c \in Cells : borrow[c] = 0)

\* the last live Ref was just dropped and every counter is back at 0
C13_Witness ==
    /\ last.op = "drop_ref"
    /\ \A c \in Cells : borrow[c] = 0 /\ refs[c] = 0 /\ refmuts[c] = 0
    /\ \E c \in Cells : value[c] # DefaultSpecial(c)

\* C14 (checked under SpecRefCell): a write through a RefMut puts its
\* argument into the RefCell and into no other; borrowing, dropping a
\* handle and reading never change a stored value; a read through a handle
\* returns the stored value, so a read that follows the write, at once or
\* after the RefMut was dropped and the RefCell borrowed again, returns what
\* was written.
C14_WritesAreSeen ==
    [][LET c == last'.cell IN
          /\ IsDerefMut =>
                /\ value'[c] = last'.arg[1]
                /\ \A e \in Cells \ {c} : value'[e] = value[e]
          /\ (IsBorrowStep \/ IsBorrowMutStep \/ IsDropRef \/ IsDropRefMut
                \/ IsDeref) => value' = value
          /\ IsDeref => last'.ret = <<value[c]>>
          /\ (IsDeref /\ last.op = "deref_mut" /\ last.cell = c) =>
                last'.ret = last.arg
      ]_vars

\* "bye" is read from a's special_nocopy through a Ref, no RefMut alive
C14_Witness ==
    /\ last.op = "deref" /\ last.cell = <<"a", "special_nocopy">>
    /\ last.ret = <<"bye">>
    /\ refs[last.cell] = 1 /\ refmuts[last.cell] = 0

\* C15 (checked under SpecRefCell): a call that ends in a conflict (Err
\* from a try_ method, panic from borrow, borrow_mut, replace, swap, take)
\* leaves every counter, every stored value and every live handle as they
\* were; try_borrow_mut right after a successful try_borrow of the same
\* RefCell fails, the Ref stays alive and a counter of 1 stays 1.
C15_ConflictChangesNothing ==
    [][/\ last'.res \in Conflict =>
             /\ borrow' = borrow /\ value' = value
             /\ refs' = refs /\ refmuts' = refmuts
       /\ (IsBorrowMutStep /\ last'.op = "try_borrow_mut"
             /\ last.op = "try_borrow" /\ last.res = "ok"
             /\ last.cell = last'.cell) =>
             /\ last'.res = "err"
             /\ refs'[last.cell] = refs[last.cell] /\ refs[last.cell] >= 1
             /\ borrow[last.cell] = 1 => borrow'[last.cell] = 1
      ]_vars

\* try_borrow_mut just failed on a RefCell with one live Ref: counter 1
C15_Witness ==
    /\ last.op = "try_borrow_mut" /\ last.res = "err"
    /\ borrow[last.cell] = 1 /\ refs[last.cell] = 1

\* C16 (checked under SpecRefCell): no step changes the value of a RefCell
\* that has a live Ref.
C16_SharedMeansFrozen ==
    [][\A c \in Cells : refs[c] > 0 => value'[c] = value[c]]_vars

\* swap just panicked because the other RefCell, which holds a different
\* value, has a live Ref
C16_Witness ==
    /\ last.op = "swap" /\ last.res = "panic"
    /\ refs[last.other] >= 1 /\ refs[last.cell] = 0
    /\ value[last.cell] # value[last.other]

\* =================================================================
\* frame of the operations (checked under SpecRecord)
\* =================================================================

\* C17: a call on one wrapped field changes nothing in any other field:
\* a RefCell method leaves the value, the counter and the handles of every
\* RefCell but the one it is called on (and, for swap, the one it is given)
\* as they were, a Cell method does the same for the Cells, and regular is
\* 1 in both records before and after every step.
C17_OtherFieldsUntouched ==
    [][/\ \A i \in Instances :
             /\ regular[i] = 1 /\ regular'[i] = 1
             /\ cregular[i] = 1 /\ cregular'[i] = 1
       /\ rvars' # rvars =>
             \A e \in Cells \ {last'.cell, last'.other} :
                /\ value'[e] = value[e] /\ borrow'[e] = borrow[e]
                /\ refs'[e] = refs[e] /\ refmuts'[e] = refmuts[e]
       /\ (rvars' # rvars /\ last'.op # "swap") => last'.other = NoCell
       /\ cvars' # cvars =>
             \A e \in Cells \ {clast'.cell, clast'.other} :
                cvalue'[e] = cvalue[e]
       /\ (cvars' # cvars /\ clast'.op # "swap") => clast'.other = NoCell
      ]_vars

\* take emptied a's special while a's special_nocopy keeps the "bye"
\* written to it and regular is 1
C17_Witness ==
    /\ last.op = "take" /\ last.res = "ok"
    /\ last.cell = <<"a", "special">>
    /\ value[<<"a", "special">>] = 0
    /\ value[<<"a", "special_nocopy">>] = "bye"
    /\ regular["a"] = 1

====
